---- MODULE Spec2Model ----
(***************************************************************************)
(* Model of the limit-order relay client (services/api/keeperDao.ts), the  *)
(* reward-program aggregator (fetchStandardRewardsByUser) and the numeric  *)
(* helpers (ppmToDec, decToPpm, prettifyNumber).                           *)
(*                                                                         *)
(* Every async function is modelled as one invocation: `pc` is the await   *)
(* the invocation is suspended at, `args` its arguments, `locals` the      *)
(* local constants bound so far, `trace` the external calls it issued and  *)
(* the settlements its body awaited (in order), `outcome` the              *)
(* settlement of the promise it returned and `console` what it logged.     *)
(* `tasks` holds the per-program callbacks of the Promise.all fan-out.     *)
(***************************************************************************)
EXTENDS Integers, Sequences, FiniteSets, TLC

VARIABLES pc, args, locals, tasks, trace, outcome, console

vars == <<pc, args, locals, tasks, trace, outcome, console>>

(***************************************************************************)
(* Promise settlements and the events of the trace.                        *)
(***************************************************************************)
Pending == [state |-> "pending"]
Resolved(v) == [state |-> "resolved", value |-> v]
Rejected(e) == [state |-> "rejected", error |-> e]

Error(m) == [message |-> m]

CallEv(fn, params) == [ev |-> "call", fn |-> fn, params |-> params]
OkEv(fn, value) == [ev |-> "ok", fn |-> fn, value |-> value]
FailEv(fn, e) == [ev |-> "fail", fn |-> fn, error |-> e]

\* the events of `trace` that are calls of fn, in the order they were issued
CallsOf(fn) == SelectSeq(trace, LAMBDA ev : ev.ev = "call" /\ ev.fn = fn)

\* the state before any function is invoked
Idle ==
    /\ pc = "idle"
    /\ args = <<>>
    /\ locals = <<>>
    /\ tasks = <<>>
    /\ trace = <<>>
    /\ outcome = Pending
    /\ console = <<>>

RECURSIVE SeqsUpTo(_, _)
\* all sequences over S of length at most n
SeqsUpTo(S, n) ==
    IF n = 0 THEN {<<>>}
    ELSE LET shorter == SeqsUpTo(S, n - 1)
         IN  shorter \cup {Append(s, x) : s \in shorter, x \in S}

(***************************************************************************)
(* cancelOrders (keeperDao.ts 129-176)                                     *)
(***************************************************************************)
MaxCancelOrders == 3
NumOrders == 2

\* an Order as the relay returns it; numbers and BigNumbers are naturals
Order(k) ==
    [ maker |-> "0xmaker", taker |-> "0xtaker",
      makerAmount |-> 100 * k, takerAmount |-> 250 * k,
      makerToken |-> "0xaaa", takerToken |-> "0xbbb",
      salt |-> 7 + k, expiry |-> 1000 + k,
      txOrigin |-> "0xorigin", pool |-> "0xpool" ]

OrderResponse(k) ==
    [ order |-> Order(k), metaData |-> [orderHash |-> ToString(k)] ]

CancelUsers == {"0xalice", "0xbob"}
ProxyAddresses == {"0xproxy"}
TxHashes == {"0xhash1", "0xhash2"}
TxFailures == {"user rejected the transaction", "transaction reverted"}

orderToStringOrder(order) ==
    [ expiry |-> ToString(order.expiry),
      makerAmount |-> ToString(order.makerAmount),
      salt |-> ToString(order.salt),
      takerAmount |-> ToString(order.takerAmount),
      maker |-> order.maker,
      makerToken |-> order.makerToken,
      pool |-> order.pool,
      taker |-> order.taker,
      takerToken |-> order.takerToken,
      txOrigin |-> order.txOrigin ]

StringOrders(orders) ==
    [i \in 1..Len(orders) |-> orderToStringOrder(orders[i].order)]

\* a mutated choice: the batch call only from three orders on
CancelTxBatchFromThree(stringOrders) ==
    IF Len(stringOrders) \in {1, 2}
    THEN [method |-> "cancelRfqOrder", params |-> stringOrders[1]]
    ELSE [method |-> "batchCancelRfqOrders", params |-> stringOrders]

\* the transaction handed to resolveTxOnConfirmation
CancelTx(stringOrders) ==
    IF Len(stringOrders) = 1
    THEN [method |-> "cancelRfqOrder", params |-> stringOrders[1]]
    ELSE [method |-> "batchCancelRfqOrders", params |-> stringOrders]

\* the call; runs to the first await (exchangeProxy$)
CancelOrdersCall ==
    /\ pc = "idle"
    /\ \E orders \in SeqsUpTo({OrderResponse(k) : k \in 1..NumOrders}, MaxCancelOrders),
          user \in CancelUsers :
          /\ args' = [orders |-> orders, user |-> user]
          /\ locals' = [stringOrders |-> StringOrders(orders)]
    /\ trace' = Append(trace, CallEv("exchangeProxy$", <<>>))
    /\ pc' = "awaitExchangeProxy"
    /\ UNCHANGED <<tasks, outcome, console>>

\* exchangeProxy$ emits, the contract is built and the transaction is handed
\* to resolveTxOnConfirmation (inside the try)
CancelOrdersProxyResolves ==
    /\ pc = "awaitExchangeProxy"
    /\ \E addr \in ProxyAddresses :
          trace' = trace \o
              << OkEv("exchangeProxy$", addr),
                 CallEv("buildExchangeProxyContract", addr),
                 OkEv("buildExchangeProxyContract", addr),
                 CallEv("resolveTxOnConfirmation",
                        [tx |-> CancelTx(locals.stringOrders),
                         user |-> args.user]) >>
    /\ pc' = "awaitTx"
    /\ UNCHANGED <<args, locals, tasks, outcome, console>>

\* exchangeProxy$ fails: the await is outside the try, the rejection escapes
CancelOrdersProxyRejects ==
    /\ pc = "awaitExchangeProxy"
    /\ LET e == Error("exchange proxy address unavailable")
       IN  /\ trace' = Append(trace, FailEv("exchangeProxy$", e))
           /\ outcome' = Rejected(e)
    /\ pc' = "done"
    /\ UNCHANGED <<args, locals, tasks, console>>

\* buildExchangeProxyContract throws: also outside the try
CancelOrdersBuildThrows ==
    /\ pc = "awaitExchangeProxy"
    /\ \E addr \in ProxyAddresses :
          LET e == Error("invalid contract address")
          IN  /\ trace' = trace \o
                     << OkEv("exchangeProxy$", addr),
                        CallEv("buildExchangeProxyContract", addr),
                        FailEv("buildExchangeProxyContract", e) >>
              /\ outcome' = Rejected(e)
    /\ pc' = "done"
    /\ UNCHANGED <<args, locals, tasks, console>>

\* the transaction is confirmed: success notification with its hash
CancelOrdersTxResolves ==
    /\ pc = "awaitTx"
    /\ \E txHash \in TxHashes :
          /\ trace' = Append(trace, OkEv("resolveTxOnConfirmation", txHash))
          /\ outcome' = Resolved([type |-> "success", title |-> "Title",
                                  msg |-> "Message", txHash |-> txHash])
    /\ pc' = "done"
    /\ UNCHANGED <<args, locals, tasks, console>>

\* submitting or confirming fails: caught, error notification
CancelOrdersTxRejects ==
    /\ pc = "awaitTx"
    /\ \E m \in TxFailures :
          trace' = Append(trace, FailEv("resolveTxOnConfirmation", Error(m)))
    /\ outcome' = Resolved([type |-> "error", title |-> "Title",
                            msg |-> "Message"])
    /\ pc' = "done"
    /\ UNCHANGED <<args, locals, tasks, console>>

CancelNext ==
    \/ CancelOrdersCall
    \/ CancelOrdersProxyResolves
    \/ CancelOrdersProxyRejects
    \/ CancelOrdersBuildThrows
    \/ CancelOrdersTxResolves
    \/ CancelOrdersTxRejects

SpecCancel == Idle /\ [][CancelNext]_vars

----------------------------------------------------------------------------
\* C1: cancelOrders never lets an exception escape: whatever step fails, the
\* returned promise resolves to a notification and never rejects.
C1_CancelNeverRejects ==
    /\ outcome.state # "rejected"
    /\ pc = "done" =>
         /\ outcome.state = "resolved"
         /\ outcome.value.type \in {"success", "error"}

\* the cancellation transactions submitted by the invocation
CancelTxs == CallsOf("resolveTxOnConfirmation")

\* the method the claim assigns to an order count (it covers 1 and more)
ClaimedCancelTx(orders) ==
    IF Len(orders) = 1
    THEN [method |-> "cancelRfqOrder",
          params |-> orderToStringOrder(orders[1].order)]
    ELSE [method |-> "batchCancelRfqOrders",
          params |-> [i \in 1..Len(orders) |->
                        orderToStringOrder(orders[i].order)]]

\* the submitted transaction is the one the claim names
SubmittedAsClaimed ==
    LET tx == CancelTxs[1].params.tx
        claimed == ClaimedCancelTx(args.orders)
    IN  tx.method = claimed.method /\ tx.params = claimed.params

\* C5 as stated: every finished invocation has submitted exactly one
\* cancellation transaction, the single-order call for one order and the
\* batch call on all orders, in input order, for more than one.
C5_ExactlyOneTxPerInvocation ==
    (pc = "done" /\ Len(args.orders) >= 1) =>
        /\ Len(CancelTxs) = 1
        /\ SubmittedAsClaimed

\* C5 amended: at most one cancellation transaction per invocation, exactly
\* one once the exchange-proxy address is resolved and the contract built;
\* that transaction is the single-order call on the order when there is
\* exactly one order and the batch call on all orders, in input order, when
\* there are more, submitted for the given user.
C5_OneTxChosenByCount ==
    /\ Len(CancelTxs) <= 1
    /\ (pc = "awaitTx" \/ (pc = "done" /\ outcome.state = "resolved")) =>
         /\ Len(CancelTxs) = 1
         /\ CancelTxs[1].params.user = args.user
         /\ Len(args.orders) >= 1 => SubmittedAsClaimed
    /\ (pc = "done" /\ outcome.state = "rejected") => Len(CancelTxs) = 0

\* both paths have run to the end: a batch of two different orders confirmed
C5_Witness ==
    /\ pc = "done"
    /\ outcome.state = "resolved"
    /\ outcome.value.type = "success"
    /\ Len(args.orders) = 2
    /\ args.orders[1] # args.orders[2]
    /\ CancelTxs[1].params.tx.method = "batchCancelRfqOrders"
    /\ CancelTxs[1].params.tx.params[2].expiry = ToString(args.orders[2].order.expiry)

(***************************************************************************)
(* fetchStandardRewardsByUser (unnamed/part_000 5-92)                      *)
(***************************************************************************)
MaxPrograms == 3

\* JavaScript values of the `user` argument
Undefined == [type |-> "undefined"]
Null == [type |-> "null"]
Str(s) == [type |-> "string", value |-> s]
Array(items) == [type |-> "array", items |-> items]

StakeUsers == {Undefined, Null, Str(""), Str("0xalice")}

\* a mutated guard: only a missing user is refused
InvalidUserOnlyMissing(user) == user.type \in {"undefined", "null"}

\* !user
InvalidUser(user) == user.type \in {"undefined", "null"} \/ user.value = ""

\* what the chain holds: program ids 1..MaxPrograms, the program struct of an
\* id, the user's stake in it, and the two per-program reads, each a
\* function of the arguments of its call
ProgramIdLists == {[i \in 1..n |-> i] : n \in 0..MaxPrograms}

Program(id) ==
    [ id |-> id, pool |-> 10 + id, poolToken |-> 20 + id,
      rewardsToken |-> 30 + id, rewardRate |-> 5 * id,
      isEnabled |-> (id % 2 = 1), startTime |-> 100 * id,
      endTime |-> 100 * id + 50 ]

ProviderStake(id) == 1000 + id

\* the amounts a staked-amount string can denote here
WeiAmounts == {0} \cup {ProviderStake(id) : id \in 1..MaxPrograms}

\* the natural a decimal string denotes
ParseWei(s) == CHOOSE n \in WeiAmounts : ToString(n) = s

PoolTokenToUnderlying(pool, poolTokenAmountWei) ==
    2 * ParseWei(poolTokenAmountWei) + pool

PendingRewards(user, idList) == 500 + idList[1]

ProgramOrders(n) ==
    {f \in [1..n -> 1..n] : \A i, j \in 1..n : f[i] = f[j] => i = j}

buildProviderStakeCall(id, user) ==
    [ contractAddress |-> "StandardStakingRewards",
      methodName |-> "providerStake",
      methodParameters |-> <<user, id>> ]

\* new Map(res.map((bn, idx) => [ids[idx].toString(), ...])): the entries in
\* order, a later entry of the same key replacing an earlier one
PoolTokenStakedWei(ids, res) ==
    [ key \in {ToString(ids[idx]) : idx \in 1..Len(res)} |->
        LET idx == CHOOSE i \in 1..Len(res) :
                       /\ ToString(ids[i]) = key
                       /\ \A j \in (i + 1)..Len(res) : ToString(ids[j]) # key
        IN  IF Len(res[idx]) > 0 THEN ToString(res[idx][1]) ELSE "0" ]

\* poolTokenStakedWei.get(program.id.toString()) || '0'
StakedOrZero(poolTokenStakedWei, program) ==
    IF ToString(program.id) \in DOMAIN poolTokenStakedWei
       /\ poolTokenStakedWei[ToString(program.id)] # ""
    THEN poolTokenStakedWei[ToString(program.id)]
    ELSE "0"

\* the record a program's callback returns
RewardsProgramStake(task) ==
    [ rewardRate |-> ToString(task.program.rewardRate),
      isEnabled |-> task.program.isEnabled,
      pool |-> task.program.pool,
      poolToken |-> task.program.poolToken,
      startTime |-> task.program.startTime,
      id |-> ToString(task.program.id),
      rewardsToken |-> task.program.rewardsToken,
      pendingRewardsWei |-> ToString(task.pendingRewardsWei),
      endTime |-> task.program.endTime,
      poolTokenAmountWei |-> task.poolTokenAmountWei,
      tokenAmountWei |-> ToString(task.tokenAmountWei) ]

\* the callbacks that have fulfilled, in the order they did
FulfilledOrder ==
    LET evs == SelectSeq(trace, LAMBDA ev : ev.ev = "ok" /\ ev.fn = "callback")
    IN  [k \in 1..Len(evs) |-> evs[k].value]

\* a mutated join: the values in the order the callbacks fulfilled
AllValuesInCompletionOrder(ts, fulfilledOrder) ==
    [k \in 1..Len(ts) |-> RewardsProgramStake(ts[fulfilledOrder[k]])]

\* the value Promise.all fulfils with: the callbacks' values by index
AllValues(ts, fulfilledOrder) ==
    [i \in 1..Len(ts) |-> RewardsProgramStake(ts[i])]

\* a mutated catch: the error is logged and an empty list returned
SettleCaughtSwallowed(e) == Resolved(<<>>)

\* catch (e) { console.error(...); throw e; }
SettleCaught(e) == Rejected(e)

FetchStakesCall ==
    /\ pc = "idle"
    /\ \E user \in StakeUsers :
          /\ args' = [user |-> user]
          /\ IF InvalidUser(user)
             THEN /\ outcome' = Rejected(Error("no user address found"))
                  /\ pc' = "done"
                  /\ trace' = trace
             ELSE /\ outcome' = outcome
                  /\ pc' = "awaitProviderProgramIds"
                  /\ trace' = Append(trace, CallEv("providerProgramIds", user))
    /\ UNCHANGED <<locals, tasks, console>>

\* the program ids arrive: the stake calls are built and the batch is issued
FetchStakesIdsResolve ==
    /\ pc = "awaitProviderProgramIds"
    /\ \E ids \in ProgramIdLists :
          /\ locals' = [ids |-> ids]
          /\ trace' = trace \o
               << OkEv("providerProgramIds", ids),
                  CallEv("multicall",
                         [i \in 1..Len(ids) |->
                            buildProviderStakeCall(ids[i], args.user)]) >>
    /\ pc' = "awaitMulticall"
    /\ UNCHANGED <<args, tasks, outcome, console>>

\* a read of the sequential part fails: caught, logged, rethrown
FetchStakesReadRejects ==
    /\ pc \in {"awaitProviderProgramIds", "awaitMulticall", "awaitPrograms"}
    /\ LET fn == CASE pc = "awaitProviderProgramIds" -> "providerProgramIds"
                   [] pc = "awaitMulticall" -> "multicall"
                   [] OTHER -> "programs"
           e == Error(fn \o " failed")
       IN  /\ trace' = Append(trace, FailEv(fn, e))
           /\ console' = Append(console, e)
           /\ outcome' = SettleCaught(e)
    /\ pc' = "done"
    /\ UNCHANGED <<args, locals, tasks>>

\* the batch returns nothing (undefined): the function throws its own error
FetchStakesMulticallNothing ==
    /\ pc = "awaitMulticall"
    /\ LET e == Error("Multicall Error while fetching provider stake")
       IN  /\ trace' = Append(trace, OkEv("multicall", Undefined))
           /\ console' = Append(console, e)
           /\ outcome' = SettleCaught(e)
    /\ pc' = "done"
    /\ UNCHANGED <<args, locals, tasks>>

\* the batch returns one tuple per call, empty where the call failed: the
\* staked amounts are keyed by id and the program structs are requested
FetchStakesMulticallResolves ==
    /\ pc = "awaitMulticall"
    /\ \E failed \in SUBSET (1..Len(locals.ids)) :
          LET res == [i \in 1..Len(locals.ids) |->
                        IF i \in failed THEN <<>>
                        ELSE <<ProviderStake(locals.ids[i])>>]
          IN  /\ locals' = [ids |-> locals.ids,
                            poolTokenStakedWei |->
                                PoolTokenStakedWei(locals.ids, res)]
              /\ trace' = trace \o << OkEv("multicall", Array(res)),
                                      CallEv("programs", locals.ids) >>
    /\ pc' = "awaitPrograms"
    /\ UNCHANGED <<args, tasks, outcome, console>>

\* a callback as it starts: it has read its staked amount and issued its
\* conversion read
StartedTask(program, poolTokenStakedWei) ==
    LET poolTokenAmountWei == StakedOrZero(poolTokenStakedWei, program)
    IN  [ program |-> program,
          poolTokenAmountWei |-> poolTokenAmountWei,
          pc |-> "awaitPoolTokenToUnderlying",
          calls |-> << CallEv("poolTokenToUnderlying",
                              <<program.pool, poolTokenAmountWei>>) >> ]

\* Promise.all over the callbacks: fulfilled with the values once every
\* callback has fulfilled; an empty list of callbacks fulfils at once
AllFulfilled(ts) == \A i \in 1..Len(ts) : ts[i].pc = "fulfilled"

\* the program structs arrive (the contract returns one per requested id;
\* the function does not rely on their order): every callback runs to its
\* first await, so all the conversion reads are issued before any returns
FetchStakesProgramsResolve ==
    /\ pc = "awaitPrograms"
    /\ \E order \in ProgramOrders(Len(locals.ids)) :
          LET programs == [i \in 1..Len(locals.ids) |->
                             Program(locals.ids[order[i]])]
              started == [i \in 1..Len(programs) |->
                            StartedTask(programs[i], locals.poolTokenStakedWei)]
          IN  /\ locals' = [ids |-> locals.ids,
                            poolTokenStakedWei |-> locals.poolTokenStakedWei,
                            programs |-> programs]
              /\ trace' = Append(trace, OkEv("programs", programs))
              /\ tasks' = started
              /\ IF Len(programs) = 0
                 THEN /\ outcome' = Resolved(AllValues(started, <<>>))
                      /\ pc' = "done"
                 ELSE /\ outcome' = outcome
                      /\ pc' = "awaitAll"
    /\ UNCHANGED <<args, console>>

\* a conversion read returns: the callback issues its pending-rewards read
TaskUnderlyingResolves(i) ==
    /\ tasks[i].pc = "awaitPoolTokenToUnderlying"
    /\ LET t == tasks[i]
           v == PoolTokenToUnderlying(t.program.pool, t.poolTokenAmountWei)
       IN  tasks' = [tasks EXCEPT ![i] =
               [ program |-> t.program,
                 poolTokenAmountWei |-> t.poolTokenAmountWei,
                 tokenAmountWei |-> v,
                 pc |-> "awaitPendingRewards",
                 calls |-> t.calls \o
                     << OkEv("poolTokenToUnderlying", v),
                        CallEv("pendingRewards",
                               <<args.user, <<t.program.id>> >>) >> ]]
    /\ UNCHANGED <<pc, args, locals, trace, outcome, console>>

\* a pending-rewards read returns: the callback fulfils with its record, and
\* Promise.all fulfils if it was the last one (and none has rejected)
TaskPendingResolves(i) ==
    /\ tasks[i].pc = "awaitPendingRewards"
    /\ LET t == tasks[i]
           v == PendingRewards(args.user, <<t.program.id>>)
           ts == [tasks EXCEPT ![i] =
               [ program |-> t.program,
                 poolTokenAmountWei |-> t.poolTokenAmountWei,
                 tokenAmountWei |-> t.tokenAmountWei,
                 pendingRewardsWei |-> v,
                 pc |-> "fulfilled",
                 calls |-> Append(t.calls, OkEv("pendingRewards", v)) ]]
           fulfilledOrder == Append(FulfilledOrder, i)
       IN  /\ tasks' = ts
           /\ IF pc = "awaitAll"
              THEN /\ trace' = Append(trace, OkEv("callback", i))
                   /\ IF AllFulfilled(ts)
                      THEN /\ outcome' = Resolved(AllValues(ts, fulfilledOrder))
                           /\ pc' = "done"
                      ELSE UNCHANGED <<outcome, pc>>
              ELSE UNCHANGED <<trace, outcome, pc>>
    /\ UNCHANGED <<args, locals, console>>

\* a per-program read fails: the callback rejects; the first rejection
\* rejects Promise.all, which is caught, logged and rethrown; the other
\* callbacks keep running, unobserved by the settled body (each keeps its
\* own events in `calls`)
TaskReadRejects(i) ==
    /\ tasks[i].pc \in {"awaitPoolTokenToUnderlying", "awaitPendingRewards"}
    /\ LET t == tasks[i]
           fn == IF t.pc = "awaitPoolTokenToUnderlying"
                 THEN "poolTokenToUnderlying" ELSE "pendingRewards"
           e == [message |-> fn \o " failed", id |-> t.program.id]
       IN  /\ tasks' = [tasks EXCEPT ![i] =
                 [ program |-> t.program,
                   poolTokenAmountWei |-> t.poolTokenAmountWei,
                   pc |-> "rejected",
                   calls |-> Append(t.calls, FailEv(fn, e)) ]]
           /\ IF pc = "awaitAll"
              THEN /\ trace' = Append(trace, FailEv("callback", e))
                   /\ outcome' = SettleCaught(e)
                   /\ console' = Append(console, e)
                   /\ pc' = "done"
              ELSE UNCHANGED <<trace, outcome, console, pc>>
    /\ UNCHANGED <<args, locals>>

StakesNext ==
    \/ FetchStakesCall
    \/ FetchStakesIdsResolve
    \/ FetchStakesReadRejects
    \/ FetchStakesMulticallNothing
    \/ FetchStakesMulticallResolves
    \/ FetchStakesProgramsResolve
    \/ \E i \in 1..Len(tasks) : TaskUnderlyingResolves(i)
    \/ \E i \in 1..Len(tasks) : TaskPendingResolves(i)
    \/ \E i \in 1..Len(tasks) : TaskReadRejects(i)

SpecStakes == Idle /\ [][StakesNext]_vars

----------------------------------------------------------------------------
\* C2: called with an empty or missing user, fetchStandardRewardsByUser
\* rejects before any network call is issued: no providerProgramIds read, no
\* multicall, no programs read and no per-program read happens.
C2_EmptyUserRejectsBeforeAnyCall ==
    (pc # "idle" /\ args.user \in {Undefined, Null, Str("")}) =>
        /\ pc = "done"
        /\ outcome = Rejected(Error("no user address found"))
        /\ trace = <<>>
        /\ tasks = <<>>

C2_Witness ==
    /\ pc = "done"
    /\ args.user = Str("")
    /\ outcome.state = "rejected"

\* the failures the body of the function was handed, in order
AwaitedFailures == SelectSeq(trace, LAMBDA ev : ev.ev = "fail")

\* what the batched stake read returned, if it has returned
MulticallReturns ==
    SelectSeq(trace, LAMBDA ev : ev.ev = "ok" /\ ev.fn = "multicall")

MulticallReturnedNothing ==
    Len(MulticallReturns) = 1 /\ MulticallReturns[1].value.type = "undefined"

MulticallReturnedEmptyArray ==
    /\ Len(MulticallReturns) = 1
    /\ MulticallReturns[1].value.type = "array"
    /\ Len(MulticallReturns[1].value.items) = 0

\* no call is issued twice, by the body or by a callback
NoCallRepeated ==
    /\ \A fn \in {"providerProgramIds", "multicall", "programs"} :
          Len(CallsOf(fn)) <= 1
    /\ \A i \in 1..Len(tasks) :
          \A fn \in {"poolTokenToUnderlying", "pendingRewards"} :
             Len(SelectSeq(tasks[i].calls,
                           LAMBDA ev : ev.ev = "call" /\ ev.fn = fn)) <= 1

\* a failed step rejects with its error, a resolved list is complete
FailFastNoPartialData ==
    /\ AwaitedFailures # <<>> => outcome = Rejected(AwaitedFailures[1].error)
    /\ MulticallReturnedNothing =>
          outcome = Rejected(Error("Multicall Error while fetching provider stake"))
    /\ (\E i \in 1..Len(tasks) : tasks[i].pc = "rejected") =>
          outcome.state = "rejected"
    /\ outcome.state = "resolved" =>
          /\ AwaitedFailures = <<>>
          /\ \A i \in 1..Len(tasks) : tasks[i].pc = "fulfilled"
          /\ Len(outcome.value) = Len(locals.programs)
          /\ \A i \in 1..Len(locals.programs) :
                outcome.value[i].id = ToString(locals.programs[i].id)
    /\ NoCallRepeated

\* C3 as stated: fail-fast with no partial data, where a batched stake read
\* that returns an empty result counts as a failed step like one that
\* returns nothing: the operation then never resolves.
C3_EmptyBatchResultRejects ==
    /\ FailFastNoPartialData
    /\ MulticallReturnedEmptyArray => outcome.state # "resolved"

\* C3 amended: if any step fails (the program-id read, the batched stake
\* read rejecting or returning nothing (undefined), the program metadata
\* read, any per-program poolTokenToUnderlying or pendingRewards read) the
\* operation rejects with the underlying error of the first failure and
\* never resolves to a list of only some of the programs; no call is issued
\* a second time.  An empty array from the batched read is not a failure.
C3_FailFastNoPartialData == FailFastNoPartialData

\* a later per-program read failed while other callbacks had already fulfilled
C3_Witness ==
    /\ pc = "done"
    /\ outcome.state = "rejected"
    /\ Len(tasks) >= 2
    /\ \E i, j \in 1..Len(tasks) :
          /\ tasks[i].pc = "fulfilled"
          /\ tasks[j].pc = "rejected"
          /\ outcome.error.message = "pendingRewards failed"
          /\ outcome.error.id = tasks[j].program.id

\* the staked amount the batched read returned for a program id
ReturnedStake(id) ==
    LET res == MulticallReturns[1].value.items
        idx == CHOOSE i \in 1..Len(locals.ids) : locals.ids[i] = id
    IN  IF Len(res[idx]) > 0 THEN res[idx][1] ELSE 0

\* C4: the per-program reads of different programs are in flight together
\* (every program's conversion read is issued before any of them returns),
\* and however their completions interleave the resolved list has one
\* record per program of the programs read, in that order, each with the
\* staked amount, underlying amount and pending rewards of its own id.
C4_RecordsInProgramOrder ==
    /\ \A i, j \in 1..Len(tasks) :
          Len(tasks[i].calls) >= 2 =>
             /\ Len(tasks[j].calls) >= 1
             /\ tasks[j].calls[1].fn = "poolTokenToUnderlying"
    /\ (outcome.state = "resolved") =>
          /\ Len(outcome.value) = Len(locals.programs)
          /\ \A i \in 1..Len(locals.programs) :
                LET program == locals.programs[i]
                    record == outcome.value[i]
                    staked == ReturnedStake(program.id)
                IN  /\ record.id = ToString(program.id)
                    /\ record.pool = program.pool
                    /\ record.poolTokenAmountWei = ToString(staked)
                    /\ record.tokenAmountWei =
                           ToString(2 * staked + program.pool)
                    /\ record.pendingRewardsWei = ToString(500 + program.id)

\* resolved after the callbacks fulfilled in another order than the
\* programs', the programs themselves in another order than the ids
C4_Witness ==
    /\ outcome.state = "resolved"
    /\ Len(locals.programs) = MaxPrograms
    /\ FulfilledOrder[1] = MaxPrograms
    /\ locals.programs[1].id # locals.ids[1]
    /\ outcome.value[1].poolTokenAmountWei = "0"
    /\ outcome.value[2].poolTokenAmountWei # "0"

(***************************************************************************)
(* Strings: containment and String.prototype.toLowerCase                   *)
(***************************************************************************)
\* whether t occurs in s
Contains(s, t) ==
    \E i \in 1..(Len(s) - Len(t) + 1) : SubSeq(s, i, i + Len(t) - 1) = t

UpperCaseLetters == "ABCDEFGHIJKLMNOPQRSTUVWXYZ"
LowerCaseLetters == "abcdefghijklmnopqrstuvwxyz"

LowerChar(c) ==
    IF \E i \in 1..26 : SubSeq(UpperCaseLetters, i, i) = c
    THEN LET i == CHOOSE i \in 1..26 : SubSeq(UpperCaseLetters, i, i) = c
         IN  SubSeq(LowerCaseLetters, i, i)
    ELSE c

RECURSIVE toLowerCase(_)
toLowerCase(s) ==
    IF Len(s) = 0 THEN ""
    ELSE LowerChar(SubSeq(s, 1, 1)) \o toLowerCase(SubSeq(s, 2, Len(s)))

(***************************************************************************)
(* sendOrders (keeperDao.ts 21, 109-127)                                   *)
(***************************************************************************)
MaxSendOrders == 3
NumSignedOrders == 2

baseUrl == "https://hidingbook.keeperdao.com/api/v1"

RfqOrderJson(k) ==
    [ maker |-> "0xmaker", taker |-> "0xtaker",
      makerToken |-> "0xaaa", takerToken |-> "0xbbb",
      makerAmount |-> ToString(100 * k), takerAmount |-> ToString(250 * k),
      txOrigin |-> "0xorigin", pool |-> "0xpool",
      expiry |-> 1000 + k, salt |-> ToString(7 + k), chainId |-> 1,
      verifyingContract |-> "0xproxy",
      signature |-> [signatureType |-> 3, v |-> 27, r |-> "0xr", s |-> "0xs"] ]

succeededResponseMessage == "Order creation succeeded"

\* what the relay may answer, and how the transport may fail
RelayMessages ==
    { "Order creation succeeded", "order creation succeeded",
      "Order creation succeeded.", "Order creation", "Invalid signature", "" }

TransportErrors == {"Network Error", "Request failed with status code 500"}

\* a mutated test: any message that starts with the literal passes
IsSucceededPrefix(message) ==
    /\ Len(message) >= Len(succeededResponseMessage)
    /\ SubSeq(message, 1, Len(succeededResponseMessage)) = succeededResponseMessage

\* res.data.message === succeededResponseMessage
IsSucceeded(message) == message = succeededResponseMessage

\* catch (e) { throw new Error(`Unexpected error during send order request ${e.message}`) }
SendOrdersCaught(e) ==
    Rejected(Error("Unexpected error during send order request " \o e.message))

SendOrdersCall ==
    /\ pc = "idle"
    /\ \E rfqOrder \in SeqsUpTo({RfqOrderJson(k) : k \in 1..NumSignedOrders},
                                MaxSendOrders) :
          /\ args' = [rfqOrder |-> rfqOrder]
          /\ trace' = Append(trace,
                CallEv("axios.post", [url |-> baseUrl \o "/orders",
                                      data |-> rfqOrder]))
    /\ pc' = "awaitPost"
    /\ UNCHANGED <<locals, tasks, outcome, console>>

\* the relay answers: the message decides between the data and an error,
\* which is thrown inside the try and so wrapped by the catch
SendOrdersPostResolves ==
    /\ pc = "awaitPost"
    /\ \E message \in RelayMessages :
          LET data == [ message |-> message,
                        result |-> [hashList |->
                            [i \in 1..Len(args.rfqOrder) |->
                                "0xhash" \o args.rfqOrder[i].salt]] ]
          IN  /\ trace' = Append(trace, OkEv("axios.post", data))
              /\ outcome' =
                    IF IsSucceeded(data.message)
                    THEN Resolved(data)
                    ELSE SendOrdersCaught(
                           Error("Unexpected response from server, "
                                 \o data.message))
    /\ pc' = "done"
    /\ UNCHANGED <<args, locals, tasks, console>>

\* the request fails in transport
SendOrdersPostRejects ==
    /\ pc = "awaitPost"
    /\ \E m \in TransportErrors :
          /\ trace' = Append(trace, FailEv("axios.post", Error(m)))
          /\ outcome' = SendOrdersCaught(Error(m))
    /\ pc' = "done"
    /\ UNCHANGED <<args, locals, tasks, console>>

SendNext ==
    \/ SendOrdersCall
    \/ SendOrdersPostResolves
    \/ SendOrdersPostRejects

SpecSend == Idle /\ [][SendNext]_vars

----------------------------------------------------------------------------
\* C6: sendOrders resolves with the relay's response only when its message
\* is exactly "Order creation succeeded"; on any other message and on any
\* transport failure it rejects with an error whose message contains the
\* relay's message, respectively the transport error's message.
C6_SendOrdersExactSuccess ==
    pc = "done" =>
        LET reply == trace[2]
        IN  /\ outcome.state \in {"resolved", "rejected"}
            /\ outcome.state = "resolved" <=>
                  (reply.ev = "ok" /\
                   reply.value.message = "Order creation succeeded")
            /\ outcome.state = "resolved" => outcome.value = reply.value
            /\ (outcome.state = "rejected" /\ reply.ev = "ok") =>
                  Contains(outcome.error.message, reply.value.message)
            /\ (outcome.state = "rejected" /\ reply.ev = "fail") =>
                  Contains(outcome.error.message, reply.error.message)

\* a near miss of the literal was refused, its text in the error
C6_Witness ==
    /\ pc = "done"
    /\ Len(args.rfqOrder) = 2
    /\ trace[2].ev = "ok"
    /\ trace[2].value.message = "Order creation succeeded."
    /\ outcome.state = "rejected"
    /\ Contains(outcome.error.message, "Order creation succeeded.")

(***************************************************************************)
(* swapLimit (keeperDao.ts 12, 23-53)                                      *)
(***************************************************************************)
\* the native-asset pseudo address and the wrapped token of the network
\* (services/web3/config), shortened
ethToken == "0xEeeeeEeeeE"
wethToken == "0xC02aaA39b2"

\* spellings of the native-asset address a token list may carry
EthTokenSpellings == {"0xEeeeeEeeeE", "0xeeeeeeeeee", "0XEEEEEEEEEE"}

TokenListItem(address, symbol, decimals) ==
    [address |-> address, symbol |-> symbol, decimals |-> decimals]

SwapFromTokens ==
    {TokenListItem(a, "ETH", 18) : a \in EthTokenSpellings}
    \cup {TokenListItem(wethToken, "WETH", 18),
          TokenListItem("0x6B175474E8", "DAI", 18)}

SwapToTokens ==
    {TokenListItem("0x1F573D6Fb3", "BNT", 18),
     TokenListItem("0xA0b86991c6", "USDC", 6)}

SwapAmounts == {"1", "2.5"}
SwapUsers == {"0xalice", "0xbob"}

\* a mutated test: the addresses are compared as they are spelled
FromIsEthCaseSensitive(fromToken) == ethToken = fromToken.address

\* ethToken.toLowerCase() === fromToken.address.toLowerCase()
FromIsEth(fromToken) ==
    toLowerCase(ethToken) = toLowerCase(fromToken.address)

\* fromIsEth ? { ...fromToken, address: wethToken } : fromToken
NewFrom(fromToken) ==
    IF FromIsEth(fromToken)
    THEN [fromToken EXCEPT !.address = wethToken]
    ELSE fromToken

CreateOrderCall ==
    CallEv("createOrder",
           [ fromToken |-> NewFrom(args.fromToken), toToken |-> args.toToken,
             from |-> args.from, to |-> args.to, user |-> args.user,
             seconds |-> args.duration.seconds ])

\* the call: the wrap deposit for the native asset, else the order at once
SwapLimitCall ==
    /\ pc = "idle"
    /\ \E fromToken \in SwapFromTokens, toToken \in SwapToTokens,
          from \in SwapAmounts, user \in SwapUsers :
          LET a == [ fromToken |-> fromToken, toToken |-> toToken,
                     from |-> from, to |-> "100", user |-> user,
                     duration |-> [seconds |-> 3600] ]
          IN  /\ args' = a
              /\ IF FromIsEth(fromToken)
                 THEN /\ trace' = Append(trace,
                            CallEv("depositWeth",
                                   [amount |-> from, user |-> user]))
                      /\ pc' = "awaitDepositWeth"
                 ELSE /\ trace' = Append(trace,
                            CallEv("createOrder",
                              [ fromToken |-> NewFrom(fromToken),
                                toToken |-> toToken, from |-> from,
                                to |-> a.to, user |-> user,
                                seconds |-> a.duration.seconds ]))
                      /\ pc' = "awaitCreateOrder"
    /\ UNCHANGED <<locals, tasks, outcome, console>>

\* the wrap has completed: the order is constructed on the wrapped token
SwapLimitDepositResolves ==
    /\ pc = "awaitDepositWeth"
    /\ trace' = trace \o << OkEv("depositWeth", "0xdeposit"), CreateOrderCall >>
    /\ pc' = "awaitCreateOrder"
    /\ UNCHANGED <<args, locals, tasks, outcome, console>>

\* the wrap fails: logged and swallowed, nothing else is done
SwapLimitDepositRejects ==
    /\ pc = "awaitDepositWeth"
    /\ LET e == Error("deposit failed")
       IN  /\ trace' = Append(trace, FailEv("depositWeth", e))
           /\ console' = Append(console, e)
    /\ outcome' = Resolved(Undefined)
    /\ pc' = "done"
    /\ UNCHANGED <<args, locals, tasks>>

SwapLimitOrderResolves ==
    /\ pc = "awaitCreateOrder"
    /\ trace' = Append(trace, OkEv("createOrder", "0xorder"))
    /\ outcome' = Resolved(Undefined)
    /\ pc' = "done"
    /\ UNCHANGED <<args, locals, tasks, console>>

\* order construction fails: logged and swallowed
SwapLimitOrderRejects ==
    /\ pc = "awaitCreateOrder"
    /\ LET e == Error("order rejected")
       IN  /\ trace' = Append(trace, FailEv("createOrder", e))
           /\ console' = Append(console, e)
    /\ outcome' = Resolved(Undefined)
    /\ pc' = "done"
    /\ UNCHANGED <<args, locals, tasks>>

SwapNext ==
    \/ SwapLimitCall
    \/ SwapLimitDepositResolves
    \/ SwapLimitDepositRejects
    \/ SwapLimitOrderResolves
    \/ SwapLimitOrderRejects

SpecSwap == Idle /\ [][SwapNext]_vars

----------------------------------------------------------------------------
\* the position in the trace of the first event of a kind, 0 if there is none
FirstAt(ev, fn) ==
    LET at == {k \in 1..Len(trace) : trace[k].ev = ev /\ trace[k].fn = fn}
    IN  IF at = {} THEN 0 ELSE CHOOSE k \in at : \A l \in at : k <= l

\* C7: for a native source token (whatever the case of its address) the wrap
\* deposit is started first and order construction starts only after the
\* wrap has completed successfully, on the wrapped token's address; if the
\* wrap fails no order is constructed; for any other source token no wrap
\* is issued and the order is constructed on the token unchanged.
C7_WrapBeforeOrder ==
    pc # "idle" =>
        LET native == args.fromToken.address \in EthTokenSpellings
            deposits == CallsOf("depositWeth")
            orders == CallsOf("createOrder")
        IN  /\ Len(deposits) <= 1 /\ Len(orders) <= 1
            /\ native =>
                  /\ trace[1] = CallEv("depositWeth",
                                  [amount |-> args.from, user |-> args.user])
                  /\ orders # <<>> =>
                        /\ FirstAt("ok", "depositWeth") > 0
                        /\ FirstAt("ok", "depositWeth")
                              < FirstAt("call", "createOrder")
                        /\ orders[1].params.fromToken.address = wethToken
                        /\ orders[1].params.fromToken.symbol
                              = args.fromToken.symbol
                  /\ FirstAt("ok", "depositWeth") > 0 => orders # <<>>
                  /\ FirstAt("fail", "depositWeth") > 0 => orders = <<>>
            /\ ~native =>
                  /\ deposits = <<>>
                  /\ Len(orders) = 1
                  /\ trace[1] = orders[1]
                  /\ orders[1].params.fromToken = args.fromToken
            /\ \A k \in 1..Len(orders) :
                  /\ orders[k].params.toToken = args.toToken
                  /\ orders[k].params.user = args.user

\* a native token spelled in lower case was wrapped, then its order placed
C7_Witness ==
    /\ pc = "done"
    /\ args.fromToken.address = "0xeeeeeeeeee"
    /\ FirstAt("ok", "depositWeth") = 2
    /\ FirstAt("call", "createOrder") = 3
    /\ FirstAt("ok", "createOrder") = 4

(***************************************************************************)
(* Decimal numbers (bignumber.js): a value is c * 10^e with an integer     *)
(* coefficient c that has no trailing zeros.  The inputs of the checks     *)
(* keep every coefficient within the integers of the model checker.        *)
(***************************************************************************)
RECURSIVE Pow10(_)
Pow10(n) == IF n = 0 THEN 1 ELSE 10 * Pow10(n - 1)

RECURSIVE NumDigits(_)
NumDigits(n) == IF n < 10 THEN 1 ELSE 1 + NumDigits(n \div 10)

RECURSIVE Normalised(_, _)
Normalised(c, e) ==
    IF c = 0 THEN [c |-> 0, e |-> 0]
    ELSE IF c % 10 = 0 THEN Normalised(c \div 10, e + 1)
    ELSE [c |-> c, e |-> e]

\* new BigNumber(...) of the decimal c * 10^e
BigNumber(c, e) == Normalised(c, e)

Sign(a) == IF a.c > 0 THEN 1 ELSE IF a.c < 0 THEN 0 - 1 ELSE 0

\* comparedTo of two positive values: by the place of the leading digit,
\* then by the aligned coefficients
ComparedPositive(a, b) ==
    LET ma == NumDigits(a.c) + a.e
        mb == NumDigits(b.c) + b.e
    IN  IF ma # mb THEN (IF ma < mb THEN 0 - 1 ELSE 1)
        ELSE LET m == IF a.e < b.e THEN a.e ELSE b.e
                 x == a.c * Pow10(a.e - m)
                 y == b.c * Pow10(b.e - m)
             IN  IF x < y THEN 0 - 1 ELSE IF x > y THEN 1 ELSE 0

ComparedTo(a, b) ==
    IF Sign(a) # Sign(b) THEN (IF Sign(a) < Sign(b) THEN 0 - 1 ELSE 1)
    ELSE IF Sign(a) = 0 THEN 0
    ELSE IF Sign(a) = 1 THEN ComparedPositive(a, b)
    ELSE ComparedPositive([c |-> 0 - b.c, e |-> b.e], [c |-> 0 - a.c, e |-> a.e])

Lte(a, b) == ComparedTo(a, b) <= 0
Lt(a, b) == ComparedTo(a, b) < 0
Gt(a, b) == ComparedTo(a, b) > 0
Gte(a, b) == ComparedTo(a, b) >= 0

Times(a, b) == Normalised(a.c * b.c, a.e + b.e)

\* the quotient of a by a positive b, for quotients that terminate within
\* MaxQuotientDigits more digits (the rounding of longer quotients to
\* bignumber.js's DECIMAL_PLACES is not needed for the inputs used here)
MaxQuotientDigits == 6

Div(a, b) ==
    LET k == CHOOSE k \in 0..MaxQuotientDigits :
                 /\ (a.c * Pow10(k)) % b.c = 0
                 /\ \A l \in 0..(k - 1) : (a.c * Pow10(l)) % b.c # 0
    IN  Normalised((a.c * Pow10(k)) \div b.c, a.e - b.e - k)

\* a mutated toFixed(0): the fraction is dropped (ROUND_DOWN)
ToFixed0RoundDown(a) ==
    IF a.e >= 0 THEN ToString(a.c * Pow10(a.e))
    ELSE ToString(a.c \div Pow10(0 - a.e))

\* toFixed(0) of a non-negative value under the default rounding mode of
\* bignumber.js, ROUND_HALF_UP: to the nearest integer, a half upwards
ToFixed0(a) ==
    IF a.e >= 0 THEN ToString(a.c * Pow10(a.e))
    ELSE LET d == Pow10(0 - a.e)
             q == a.c \div d
             r == a.c % d
         IN  ToString(IF 2 * r >= d THEN q + 1 ELSE q)

(***************************************************************************)
(* ppmToDec, decToPpm (store/user/user.ts 93-99)                           *)
(***************************************************************************)
oneMillion == BigNumber(1000000, 0)

ppmToDec(ppm) == Div(ppm, oneMillion)

decToPpm(dec) == ToFixed0(Times(dec, oneMillion))

MaxDecCoefficient == 40
MaxPpm == 30

\* decimals with a fraction of up to nine digits, among them 0.5 and
\* 0.123456789, and integer PPM values, among them 500000
DecInputs ==
    {BigNumber(c, e) : c \in 0..MaxDecCoefficient, e \in {0 - 8, 0 - 7, 0 - 6}}
    \cup {BigNumber(5, 0 - 1), BigNumber(123456789, 0 - 9),
          BigNumber(1999999, 0 - 6), BigNumber(12345675, 0 - 7)}

PpmInputs ==
    {BigNumber(x, 0) : x \in 0..MaxPpm} \cup {BigNumber(500000, 0),
                                              BigNumber(1000000, 0)}

PpmInit ==
    /\ pc = "idle"
    /\ args \in {[fn |-> "decToPpm", dec |-> d] : d \in DecInputs}
          \cup {[fn |-> "roundTrip", ppm |-> x] : x \in PpmInputs}
    /\ locals = <<>> /\ tasks = <<>> /\ trace = <<>> /\ console = <<>>
    /\ outcome = Pending

DecToPpmApply ==
    /\ pc = "idle" /\ args.fn = "decToPpm"
    /\ outcome' = Resolved(decToPpm(args.dec))
    /\ pc' = "done"
    /\ UNCHANGED <<args, locals, tasks, trace, console>>

\* decToPpm(ppmToDec(ppm))
PpmRoundTripApply ==
    /\ pc = "idle" /\ args.fn = "roundTrip"
    /\ outcome' = Resolved(decToPpm(ppmToDec(args.ppm)))
    /\ pc' = "done"
    /\ UNCHANGED <<args, locals, tasks, trace, console>>

PpmNext == DecToPpmApply \/ PpmRoundTripApply

SpecPpm == PpmInit /\ [][PpmNext]_vars

----------------------------------------------------------------------------
\* dec * 1000000 as a fraction num / den of naturals
PpmNum(dec) == IF dec.e + 6 >= 0 THEN dec.c * Pow10(dec.e + 6) ELSE dec.c
PpmDen(dec) == IF dec.e + 6 >= 0 THEN 1 ELSE Pow10(0 - (dec.e + 6))

\* C10 as stated: decToPpm truncates and never rounds up: the result is the
\* integer string of floor(dec * 1000000), so it never exceeds
\* dec * 1000000; and decToPpm(ppmToDec(x)) = x for every integer x.
C10_DecToPpmTruncates ==
    /\ (pc = "done" /\ args.fn = "decToPpm") =>
          outcome.value = ToString(PpmNum(args.dec) \div PpmDen(args.dec))
    /\ (pc = "done" /\ args.fn = "roundTrip") =>
          outcome.value = ToString(args.ppm.c * Pow10(args.ppm.e))

\* C10 amended: decToPpm rounds to the nearest integer, a half upwards: for
\* every non-negative decimal dec the result is the integer string of
\* floor(dec * 1000000 + 1/2), which exceeds dec * 1000000 exactly when the
\* dropped fractional part is 0.5 or more; decToPpm(ppmToDec(x)) = x for
\* every integer PPM value x.
C10_DecToPpmRoundsHalfUp ==
    /\ (pc = "done" /\ args.fn = "decToPpm") =>
          LET num == PpmNum(args.dec)
              den == PpmDen(args.dec)
              floor == num \div den
          IN  /\ outcome.value = ToString((2 * num + den) \div (2 * den))
              /\ outcome.value \in {ToString(floor), ToString(floor + 1)}
              /\ (outcome.value = ToString(floor + 1)) <=>
                     (2 * (num % den) >= den)
    /\ (pc = "done" /\ args.fn = "roundTrip") =>
          outcome.value = ToString(args.ppm.c * Pow10(args.ppm.e))

\* 0.123456789 came out as 123457, above 123456.789
C10_Witness ==
    /\ pc = "done"
    /\ args.fn = "decToPpm"
    /\ args.dec = [c |-> 123456789, e |-> 0 - 9]
    /\ outcome.value = "123457"

(***************************************************************************)
(* prettifyNumber (store/user/user.ts 101-155).  The digits are produced   *)
(* by the formatting libraries; the function chooses the library call (or  *)
(* a literal), which is what the result records.                           *)
(***************************************************************************)
Bool(b) == [type |-> "boolean", value |-> b]
Options(usd, abbreviate) ==
    [type |-> "object", usd |-> usd, abbreviate |-> abbreviate]

\* truthiness of undefined, true and false
Truthy(v) == v.type = "boolean" /\ v.value

Literal(text) == [by |-> "literal", text |-> text]

\* numeral(bigNum).format(format, Math.floor)
NumeralFormat(bigNum, format) ==
    [by |-> "numeral", format |-> format, rounding |-> "floor",
     value |-> bigNum, prefix |-> ""]

\* numbro(bigNum).format(prettifyNumberAbbreviateFormat), after a prefix
NumbroAbbreviated(prefix, bigNum) ==
    [by |-> "numbro", format |-> "average, mantissa 1", rounding |-> "floor",
     value |-> bigNum, prefix |-> prefix]

\* the usd and abbreviate flags the argument stands for
UsdOf(optionsOrUsd) ==
    IF optionsOrUsd.type = "undefined" THEN Bool(FALSE)
    ELSE IF optionsOrUsd.type = "boolean" THEN optionsOrUsd
    ELSE optionsOrUsd.usd

AbbreviateOf(optionsOrUsd) ==
    IF optionsOrUsd.type = "undefined" THEN Bool(FALSE)
    ELSE IF optionsOrUsd.type = "boolean" THEN Bool(FALSE)
    ELSE optionsOrUsd.abbreviate

prettifyNumber(bigNum, optionsOrUsd) ==
    LET usd == UsdOf(optionsOrUsd)
        abbreviate == AbbreviateOf(optionsOrUsd)
    IN  IF Truthy(usd)
        THEN IF Lte(bigNum, BigNumber(0, 0)) THEN Literal("$0.00")
             ELSE IF Lt(bigNum, BigNumber(1, 0 - 2)) THEN Literal("< $0.01")
             ELSE IF Gt(bigNum, BigNumber(100, 0))
                  THEN NumeralFormat(bigNum, "$0,0")
             ELSE IF Truthy(abbreviate) /\ Gt(bigNum, BigNumber(999999, 0))
                  THEN NumbroAbbreviated("$", bigNum)
             ELSE NumeralFormat(bigNum, "$0,0.00")
        ELSE IF Lte(bigNum, BigNumber(0, 0)) THEN Literal("0")
             ELSE IF Truthy(abbreviate) /\ Gt(bigNum, BigNumber(999999, 0))
                  THEN NumbroAbbreviated("", bigNum)
             ELSE IF Gte(bigNum, BigNumber(1000, 0))
                  THEN NumeralFormat(bigNum, "0,0")
             ELSE IF Gte(bigNum, BigNumber(2, 0))
                  THEN NumeralFormat(bigNum, "0,0.[00]")
             ELSE IF Lt(bigNum, BigNumber(1, 0 - 6))
                  THEN Literal("< 0.000001")
             ELSE NumeralFormat(bigNum, "0.[000000]")

MaxPrettyMillions == 2

\* amounts around every threshold of the function
PrettyAmounts ==
    { BigNumber(0 - 5, 0), BigNumber(0, 0), BigNumber(5, 0 - 7),
      BigNumber(1, 0 - 6), BigNumber(5, 0 - 3), BigNumber(1, 0 - 2),
      BigNumber(15, 0 - 1), BigNumber(2, 0), BigNumber(100, 0),
      BigNumber(1005, 0 - 1), BigNumber(150, 0), BigNumber(999, 0),
      BigNumber(1000, 0), BigNumber(999999, 0), BigNumber(9999995, 0 - 1) }
    \cup {BigNumber(m * 1000000, 0) : m \in 1..MaxPrettyMillions}
    \cup {BigNumber(m * 1000000 + 500000, 0) : m \in 1..MaxPrettyMillions}

PrettyOptions ==
    {Undefined, Bool(TRUE), Bool(FALSE)}
    \cup {Options(u, a) : u, a \in {Undefined, Bool(TRUE), Bool(FALSE)}}

PrettyInit ==
    /\ pc = "idle"
    /\ args \in [num : PrettyAmounts, optionsOrUsd : PrettyOptions]
    /\ locals = <<>> /\ tasks = <<>> /\ trace = <<>> /\ console = <<>>
    /\ outcome = Pending

PrettifyNumberApply ==
    /\ pc = "idle"
    /\ outcome' = Resolved(prettifyNumber(args.num, args.optionsOrUsd))
    /\ pc' = "done"
    /\ UNCHANGED <<args, locals, tasks, trace, console>>

PrettyNext == PrettifyNumberApply

SpecPretty == PrettyInit /\ [][PrettyNext]_vars

----------------------------------------------------------------------------
\* the integer part of a non-negative decimal
IntegerPart(v) ==
    IF v.e >= 0 THEN v.c * Pow10(v.e) ELSE v.c \div Pow10(0 - v.e)

\* v > 999999 (a normalised v with e < 0 has a non-zero fraction)
Above999999(v) ==
    IntegerPart(v) > 999999 \/ (IntegerPart(v) = 999999 /\ v.e < 0)

\* C9: in USD mode with abbreviate set, every amount greater than 999999
\* comes out in the abbreviated form ("$" followed by the number with one
\* fractional digit and a magnitude suffix), not as integer-grouped dollars.
C9_UsdAbbreviatesAboveMillion ==
    ( /\ pc = "done"
      /\ args.optionsOrUsd.type = "object"
      /\ args.optionsOrUsd.usd = Bool(TRUE)
      /\ args.optionsOrUsd.abbreviate = Bool(TRUE)
      /\ Above999999(args.num) ) =>
        /\ outcome.value.by = "numbro"
        /\ outcome.value.prefix = "$"

(***************************************************************************)
(* getOrders, orderResToLimit (keeperDao.ts 64-107)                        *)
(***************************************************************************)
MaxRelayOrders == 2

\* the token list entries, and the addresses a relay order may name: an
\* entry's address in another case, and an address of no entry
KnownTokenA == TokenListItem("0x1F573D6Fb3", "BNT", 2)
KnownTokenB == TokenListItem("0xA0b86991c6", "USDC", 1)

RelayTokenAddresses == {"0x1f573d6fb3", "0XA0B86991C6", "0xdeadbeef00"}

TokenLists ==
    { <<>>, <<KnownTokenA>>, <<KnownTokenB>>,
      <<KnownTokenA, KnownTokenB>>, <<KnownTokenB, KnownTokenA>> }

\* a raw order of the relay, its amounts in base units
RelayOrder(makerToken, takerToken) ==
    [ order |-> [ makerToken |-> makerToken, takerToken |-> takerToken,
                  makerAmount |-> BigNumber(2000, 0),
                  takerAmount |-> BigNumber(5000, 0),
                  expiry |-> 1700000000 ],
      metaData |-> [ orderHash |-> "0xhash-" \o makerToken \o "-" \o takerToken,
                     filledAmount_takerToken |-> BigNumber(1000, 0),
                     remainingFillableAmount_takerToken |-> BigNumber(4000, 0) ] ]

RelayOrders ==
    {RelayOrder(m, t) : m, t \in RelayTokenAddresses}

\* base units to a decimal amount (utils/pureFunctions shrinkToken)
shrinkToken(amount, decimals) == Normalised(amount.c, amount.e - decimals)

\* whether tokens.find(...) finds an entry for the address
Finds(tokens, address) ==
    \E i \in 1..Len(tokens) :
        toLowerCase(tokens[i].address) = toLowerCase(address)

\* a mutated fallback: the last entry of the list
FindOrLast(tokens, address) ==
    IF Finds(tokens, address)
    THEN CHOOSE i \in 1..Len(tokens) :
            /\ toLowerCase(tokens[i].address) = toLowerCase(address)
            /\ \A j \in 1..(i - 1) :
                  toLowerCase(tokens[j].address) # toLowerCase(address)
    ELSE Len(tokens)

\* the index tokens.find(...) ?? tokens[0] lands on: the first match, else
\* the first entry
FindOrFirst(tokens, address) ==
    IF Finds(tokens, address)
    THEN CHOOSE i \in 1..Len(tokens) :
            /\ toLowerCase(tokens[i].address) = toLowerCase(address)
            /\ \A j \in 1..(i - 1) :
                  toLowerCase(tokens[j].address) # toLowerCase(address)
    ELSE 1

\* the LimitOrder of one raw order, given a non-empty token list
LimitOrder(res, tokens) ==
    LET payToken == tokens[FindOrFirst(tokens, res.order.makerToken)]
        getToken == tokens[FindOrFirst(tokens, res.order.takerToken)]
        payAmount == res.order.makerAmount
        getAmount == res.order.takerAmount
    IN  [ hash |-> res.metaData.orderHash,
          expiration |-> res.order.expiry,
          payToken |-> payToken,
          getToken |-> getToken,
          payAmount |-> prettifyNumber(
              shrinkToken(payAmount, payToken.decimals), Undefined),
          getAmount |-> prettifyNumber(
              shrinkToken(getAmount, getToken.decimals), Undefined),
          rate |-> << "1 ", payToken.symbol, " = ",
                      prettifyNumber(Div(getAmount, payAmount), Undefined),
                      " ", getToken.symbol >>,
          filled |-> prettifyNumber(
              Div(res.metaData.filledAmount_takerToken,
                  res.metaData.remainingFillableAmount_takerToken),
              Undefined) ]

\* orders.map(...): with an empty token list tokens[0] is undefined and
\* reading its decimals throws on the first order
OrderResToLimit(orders, tokens) ==
    IF Len(orders) > 0 /\ Len(tokens) = 0
    THEN Rejected(Error("Cannot read properties of undefined (reading 'decimals')"))
    ELSE Resolved([i \in 1..Len(orders) |-> LimitOrder(orders[i], tokens)])

GetOrdersCall ==
    /\ pc = "idle"
    /\ \E currentUser \in {"0xalice"} :
          /\ args' = [currentUser |-> currentUser]
          /\ trace' = Append(trace,
                CallEv("axios.get", baseUrl \o "/orders?maker=" \o currentUser))
    /\ pc' = "awaitGet"
    /\ UNCHANGED <<locals, tasks, outcome, console>>

\* the relay answers with the maker's orders; the token list is awaited
GetOrdersGetResolves ==
    /\ pc = "awaitGet"
    /\ \E orders \in SeqsUpTo(RelayOrders, MaxRelayOrders) :
          /\ locals' = [orders |-> orders]
          /\ trace' = trace \o << OkEv("axios.get", [orders |-> orders]),
                                  CallEv("tokenList$", <<>>) >>
    /\ pc' = "awaitTokenList"
    /\ UNCHANGED <<args, tasks, outcome, console>>

GetOrdersGetRejects ==
    /\ pc = "awaitGet"
    /\ LET e == Error("Network Error")
       IN  /\ trace' = Append(trace, FailEv("axios.get", e))
           /\ outcome' = Rejected(e)
    /\ pc' = "done"
    /\ UNCHANGED <<args, locals, tasks, console>>

\* the token list arrives and every order is converted
GetOrdersTokensResolve ==
    /\ pc = "awaitTokenList"
    /\ \E tokens \in TokenLists :
          /\ trace' = Append(trace, OkEv("tokenList$", tokens))
          /\ outcome' = OrderResToLimit(locals.orders, tokens)
    /\ pc' = "done"
    /\ UNCHANGED <<args, locals, tasks, console>>

OrdersNext ==
    \/ GetOrdersCall
    \/ GetOrdersGetResolves
    \/ GetOrdersGetRejects
    \/ GetOrdersTokensResolve

SpecOrders == Idle /\ [][OrdersNext]_vars

----------------------------------------------------------------------------
\* the token list the invocation was given, once it has one
GivenTokens == trace[Len(trace)].value

\* the entries of a list whose address is the given one up to case
Matching(tokens, address) ==
    {i \in 1..Len(tokens) :
        toLowerCase(tokens[i].address) = toLowerCase(address)}

\* one LimitOrder per relay order, in order; a token that matches no entry
\* is the first entry of the list, a token that matches is its entry
OneLimitOrderPerRelayOrder ==
    /\ outcome.state = "resolved"
    /\ Len(outcome.value) = Len(locals.orders)
    /\ \A i \in 1..Len(locals.orders) :
          LET raw == locals.orders[i]
              lo == outcome.value[i]
          IN  /\ lo.hash = raw.metaData.orderHash
              /\ IF Matching(GivenTokens, raw.order.makerToken) = {}
                 THEN lo.payToken = GivenTokens[1]
                 ELSE \E k \in Matching(GivenTokens, raw.order.makerToken) :
                         lo.payToken = GivenTokens[k]
              /\ IF Matching(GivenTokens, raw.order.takerToken) = {}
                 THEN lo.getToken = GivenTokens[1]
                 ELSE \E k \in Matching(GivenTokens, raw.order.takerToken) :
                         lo.getToken = GivenTokens[k]

TokenListArrived ==
    pc = "done" /\ trace[Len(trace)].ev = "ok" /\ trace[Len(trace)].fn = "tokenList$"

\* C8 as stated: for every relay response and every known token list the
\* result has one LimitOrder per relay order, an unrecognised token
\* resolved to the first entry of the list; getOrders does not throw.
C8_UnknownTokenNeverThrows ==
    TokenListArrived => OneLimitOrderPerRelayOrder

\* C8 amended: for every relay response and every NON-EMPTY known token
\* list, an order whose makerToken or takerToken matches no entry
\* (case-insensitively) yields a LimitOrder whose payToken/getToken is the
\* first entry of the list, and the result has exactly one LimitOrder per
\* relay order in the same order; with an empty token list only an empty
\* relay response resolves.
C8_UnknownTokenFallsBackToFirst ==
    /\ (TokenListArrived /\ Len(GivenTokens) > 0) => OneLimitOrderPerRelayOrder
    /\ (TokenListArrived /\ Len(GivenTokens) = 0 /\ Len(locals.orders) = 0) =>
           outcome = Resolved(<<>>)

\* an order naming an unknown maker token next to a known taker token,
\* against a list of two entries
C8_Witness ==
    /\ TokenListArrived
    /\ outcome.state = "resolved"
    /\ GivenTokens = <<KnownTokenA, KnownTokenB>>
    /\ Len(locals.orders) = 2
    /\ locals.orders[2].order.makerToken = "0xdeadbeef00"
    /\ locals.orders[2].order.takerToken = "0XA0B86991C6"
    /\ outcome.value[2].payToken = KnownTokenA
    /\ outcome.value[2].getToken = KnownTokenB

(***************************************************************************)
(* calculateProgressLevel (store/user/user.ts 242-253)                     *)
(***************************************************************************)
MaxTime == 4

\* a JavaScript number that is a quotient of two integers: n / d, with the
\* results of a division by zero
Quotient(n, d) ==
    IF d # 0 THEN [type |-> "number", num |-> n, den |-> d]
    ELSE IF n > 0 THEN [type |-> "Infinity"]
    ELSE IF n < 0 THEN [type |-> "-Infinity"]
    ELSE [type |-> "NaN"]

\* the result for the time `now` read from the clock
calculateProgressLevel(startTimeSeconds, endTimeSeconds, now) ==
    IF endTimeSeconds < startTimeSeconds
    THEN Rejected(Error("End time should be greater than start time"))
    ELSE LET totalWaitingTime == endTimeSeconds - startTimeSeconds
         IN  IF now >= endTimeSeconds THEN Resolved(Quotient(1, 1))
             ELSE LET timeWaited == now - startTimeSeconds
                  IN  Resolved(Quotient(timeWaited, totalWaitingTime))

ProgressInit ==
    /\ pc = "idle"
    /\ args \in [startTimeSeconds : 0..MaxTime, endTimeSeconds : 0..MaxTime]
    /\ locals = <<>> /\ tasks = <<>> /\ trace = <<>> /\ console = <<>>
    /\ outcome = Pending

\* the call, with the time dayjs().unix() returns
CalculateProgressLevelApply ==
    /\ pc = "idle"
    /\ \E now \in 0..MaxTime :
          /\ locals' = [now |-> now]
          /\ outcome' = calculateProgressLevel(args.startTimeSeconds,
                                               args.endTimeSeconds, now)
    /\ pc' = "done"
    /\ UNCHANGED <<args, tasks, trace, console>>

ProgressNext == CalculateProgressLevelApply

SpecProgress == ProgressInit /\ [][ProgressNext]_vars

----------------------------------------------------------------------------
\* C11: calculateProgressLevel throws when end < start, returns exactly 1
\* when the current time is at or after end, and in every other case
\* returns elapsed / total as a finite value in [0, 1), also when the
\* current time is before start and when start = end.
C11_ProgressInUnitInterval ==
    pc = "done" =>
        LET start == args.startTimeSeconds
            end == args.endTimeSeconds
            now == locals.now
        IN  IF end < start THEN outcome.state = "rejected"
            ELSE /\ outcome.state = "resolved"
                 /\ outcome.value.type = "number"
                 /\ IF now >= end
                    THEN outcome.value.num = outcome.value.den
                    ELSE /\ outcome.value.den > 0
                         /\ outcome.value.num >= 0
                         /\ outcome.value.num < outcome.value.den
                         /\ outcome.value.num = now - start
                         /\ outcome.value.den = end - start

(***************************************************************************)
(* calculatePriceDeviationTooHigh (store/user/user.ts 202-225)             *)
(*                                                                         *)
(* The values of this function are held as exact fractions num / den with  *)
(* den > 0 and no common factor, and den = 0 for the values bignumber.js   *)
(* gives a division by zero: Infinity (1/0), -Infinity (-1/0), NaN (0/0).  *)
(* bignumber.js rounds a quotient to DECIMAL_PLACES = 20 places; the       *)
(* quotients compared here are either equal to the value they are compared *)
(* with or further than 10^-9 from it, so the rounding decides nothing.    *)
(***************************************************************************)
RECURSIVE Gcd(_, _)
Gcd(a, b) == IF b = 0 THEN a ELSE Gcd(b, a % b)

Magnitude(n) == IF n < 0 THEN 0 - n ELSE n

\* the fraction n / d for d # 0, in lowest terms with a positive denominator
Ratio(n, d) ==
    LET g == Gcd(Magnitude(n), Magnitude(d))
        m == IF d < 0 THEN 0 - n ELSE n
    IN  [num |-> m \div g, den |-> Magnitude(d) \div g]

Infinity == [num |-> 1, den |-> 0]
NegativeInfinity == [num |-> 0 - 1, den |-> 0]
NaN == [num |-> 0, den |-> 0]

\* the fraction of a decimal c * 10^e
Exact(a) ==
    IF a.e >= 0 THEN Ratio(a.c * Pow10(a.e), 1)
    ELSE Ratio(a.c, Pow10(0 - a.e))

\* a.minus(b) of finite values
Minus(a, b) == Ratio(a.num * b.den - b.num * a.den, a.den * b.den)

\* a.dividedBy(b) of finite values: a division by zero yields an infinity
\* of the sign of a, and 0 / 0 yields NaN
DividedBy(a, b) ==
    IF b.num = 0
    THEN (IF a.num > 0 THEN Infinity
          ELSE IF a.num < 0 THEN NegativeInfinity ELSE NaN)
    ELSE Ratio(a.num * b.den, a.den * b.num)

\* a mutated isGreaterThan: an infinite value is greater than nothing
IsGreaterThanFinite(a, b) ==
    IF a.den = 0 \/ b.den = 0 THEN FALSE
    ELSE a.num * b.den > b.num * a.den

\* a.isGreaterThan(b): false when either is NaN
IsGreaterThan(a, b) ==
    IF a = NaN \/ b = NaN THEN FALSE
    ELSE IF a.den = 0 THEN a = Infinity /\ b # Infinity
    ELSE IF b.den = 0 THEN b = NegativeInfinity
    ELSE a.num * b.den > b.num * a.den

calculatePriceDeviationTooHigh(averageRate, primaryReserveBalance, secondaryReserveBalance, averageRateMaxDeviation) ==
    LET spotRate == DividedBy(primaryReserveBalance, secondaryReserveBalance)
        averageRateMaxDeviationBase ==
            Minus(Exact(oneMillion), averageRateMaxDeviation)
        threshold == DividedBy(averageRate, spotRate)
        withinLowerThreshold ==
            IsGreaterThan(threshold,
                          DividedBy(averageRateMaxDeviationBase,
                                    Exact(oneMillion)))
        withinHigherThreshold ==
            IsGreaterThan(DividedBy(Exact(oneMillion),
                                    averageRateMaxDeviationBase),
                          threshold)
    IN  ~(withinLowerThreshold /\ withinHigherThreshold)

MaxBalance == 3

\* positive reserve balances
ReserveBalances == {Ratio(b, 1) : b \in 1..MaxBalance}

\* the maximum deviations, in PPM: none, small ones, the whole (1000000)
\* and more than the whole
MaxDeviations ==
    {Ratio(m, 1) : m \in {0, 1, 10000, 250000, 500000, 999999, 1000000,
                          1000001, 1500000, 2000000}}

\* the average rates: the spot rate of the balances and decimal multiples
\* of it below and above
RateFactors ==
    {Ratio(1, 2), Ratio(3, 4), Ratio(99, 100), Ratio(1, 1), Ratio(101, 100),
     Ratio(5, 4), Ratio(2, 1)}

AverageRates(primary, secondary) ==
    {Ratio(primary.num * f.num, secondary.num * f.den) : f \in RateFactors}

DeviationInit ==
    /\ pc = "idle"
    /\ \E primary \in ReserveBalances, secondary \in ReserveBalances :
         \E rate \in AverageRates(primary, secondary),
            deviation \in MaxDeviations :
            args = [averageRate |-> rate,
                    primaryReserveBalance |-> primary,
                    secondaryReserveBalance |-> secondary,
                    averageRateMaxDeviation |-> deviation]
    /\ locals = <<>> /\ tasks = <<>> /\ trace = <<>> /\ console = <<>>
    /\ outcome = Pending

CalculatePriceDeviationTooHighApply ==
    /\ pc = "idle"
    /\ outcome' = Resolved(calculatePriceDeviationTooHigh(
                               args.averageRate, args.primaryReserveBalance,
                               args.secondaryReserveBalance,
                               args.averageRateMaxDeviation))
    /\ pc' = "done"
    /\ UNCHANGED <<args, locals, tasks, trace, console>>

DeviationNext == CalculatePriceDeviationTooHighApply

SpecDeviation == DeviationInit /\ [][DeviationNext]_vars

----------------------------------------------------------------------------
\* the average rate given is exactly the spot rate of the balances given
AtSpotRate ==
    args.averageRate
        = Ratio(args.primaryReserveBalance.num,
                args.secondaryReserveBalance.num)

\* C12 (as stated): calculatePriceDeviationTooHigh returns false whenever
\* averageRate equals the spot rate primaryBalance / secondaryBalance, for
\* any positive maxDeviationPpm, also at or above 1000000, and any positive
\* balances.
C12_AtSpotRateNeverTooHigh ==
    (pc = "done" /\ AtSpotRate /\ args.averageRateMaxDeviation.num > 0)
        => outcome.value = FALSE

\* C12: at the spot rate calculatePriceDeviationTooHigh returns false for
\* every maxDeviationPpm from 1 to 1000000, and true for every
\* maxDeviationPpm above 1000000.
C12_AtSpotRateUpToOneMillion ==
    (pc = "done" /\ AtSpotRate /\ args.averageRateMaxDeviation.num > 0)
        => (outcome.value = FALSE
                <=> args.averageRateMaxDeviation.num <= 1000000)

\* at the spot rate with a maximum deviation of the whole, 1000000 PPM,
\* where the upper end of the band is 1000000 / 0
C12_Witness ==
    /\ pc = "done"
    /\ AtSpotRate
    /\ args.primaryReserveBalance.num = 2
    /\ args.secondaryReserveBalance.num = 3
    /\ args.averageRateMaxDeviation.num = 1000000
    /\ outcome.value = FALSE

====
